---- MODULE Spec2Model ----
(***************************************************************************)
(* Model of lsl_server.py: the per-frame loop of run_demo_with_lsl that    *)
(* builds a gaze sample and a 68-landmark face sample, validates them,     *)
(* rate-limits them to 30 Hz and pushes them on two LSL outlets.           *)
(*                                                                         *)
(* Floats are modelled as exact rationals n/d plus the IEEE specials       *)
(* NaN, +inf, -inf; Python's None is a fourth kind of value.  Time is a    *)
(* rational number of seconds.                                             *)
(***************************************************************************)
EXTENDS Integers, Sequences, FiniteSets, TLC

VARIABLES
    pc,                       \* position of run_demo_with_lsl
    screen_width,             \* get_screen_size()
    screen_height,
    outlet,                   \* TRUE: EyeGaze outlet open, FALSE: None
    facemesh_outlet,          \* TRUE: FaceMesh outlet open, FALSE: None
    frames,                   \* frames read from iter_frames so far
    blink_detected,           \* extract_features(frame)[1]
    features,                 \* TRUE iff extract_features(frame)[0] is not None
    gaze_point,               \* gaze_estimator.predict(...)[0], a pair of floats
    face,                     \* results.multi_face_landmarks
    x_pred,                   \* smoother output (or None)
    y_pred,
    smoother_calls,           \* calls of smoother.step in the current frame
    smoother_args,            \* arguments of that call
    lsl_sample,               \* gaze candidate of the frame, <<>> for None
    facemesh_sample,          \* landmark candidate of the frame
    cursor_alpha,
    current_time,             \* time.time() read at line 373
    last_gaze_send_time,
    last_facemesh_send_time,
    gaze_data_str,
    facemesh_data_str,
    gaze_pushed,              \* sample the EyeGaze outlet received this frame
    facemesh_pushed,          \* sample the FaceMesh outlet received this frame
    gaze_raised,              \* outlet.push_sample raised in this frame
    facemesh_raised,          \* facemesh_outlet.push_sample raised in this frame
    gaze_log,                 \* (time, frame) of every sample the EyeGaze outlet received
    facemesh_log              \* the same for the FaceMesh outlet

vars == <<pc, screen_width, screen_height, outlet, facemesh_outlet, frames,
          blink_detected, features, gaze_point, face, x_pred, y_pred,
          smoother_calls, smoother_args, lsl_sample, facemesh_sample,
          cursor_alpha, current_time, last_gaze_send_time,
          last_facemesh_send_time, gaze_data_str, facemesh_data_str,
          gaze_pushed, facemesh_pushed, gaze_raised, facemesh_raised,
          gaze_log, facemesh_log>>

----------------------------------------------------------------------------
(* Bounds of the model.                                                    *)

\* frames the loop reads before the model stops following it
MaxFrames == 2

----------------------------------------------------------------------------
(* Float values.                                                           *)

RECURSIVE GCD(_, _)
GCD(a, b) == IF b = 0 THEN a ELSE GCD(b, a % b)

AbsInt(n) == IF n < 0 THEN -n ELSE n

\* the rational n/d (d # 0) in lowest terms with a positive denominator
Mk(n, d) ==
    LET s == IF d < 0 THEN -1 ELSE 1
        g == GCD(AbsInt(n), AbsInt(d))
    IN  [k |-> "num", n |-> (s * n) \div g, d |-> (s * d) \div g]

NaN    == [k |-> "nan",  n |-> 0,  d |-> 1]
PosInf == [k |-> "inf",  n |-> 1,  d |-> 1]
NegInf == [k |-> "inf",  n |-> -1, d |-> 1]
None   == [k |-> "none", n |-> 0,  d |-> 1]

Zero == Mk(0, 1)
One  == Mk(1, 1)

\* np.isfinite(v) for a float v
IsFinite(v) == v.k = "num"

\* np.isnan(v)
IsNaN(v) == v.k = "nan"

\* isinstance(v, (int, float))
IsNumber(v) == v.k # "none"

ExtSign(v) == IF v.k = "inf" THEN v.n ELSE 0

\* a < b on floats: every comparison with NaN is false
Lt(a, b) ==
    IF a.k = "nan" \/ b.k = "nan" THEN FALSE
    ELSE IF a.k = "num" /\ b.k = "num" THEN a.n * b.d < b.n * a.d
    ELSE ExtSign(a) < ExtSign(b)

\* a <= b on floats
Le(a, b) ==
    IF a.k = "nan" \/ b.k = "nan" THEN FALSE
    ELSE IF a.k = "num" /\ b.k = "num" THEN a.n * b.d <= b.n * a.d
    ELSE ExtSign(a) < ExtSign(b) \/ a = b

Gt(a, b) == Lt(b, a)
Ge(a, b) == Le(b, a)

\* abs(v)
Abs(v) ==
    IF v.k = "num" THEN [v EXCEPT !.n = AbsInt(v.n)]
    ELSE IF v.k = "inf" THEN PosInf
    ELSE v

\* a + b and a - b on finite values
Add(a, b) == Mk(a.n * b.d + b.n * a.d, a.d * b.d)
Sub(a, b) == Mk(a.n * b.d - b.n * a.d, a.d * b.d)

\* v / w for a float v and a positive integer w
DivInt(v, w) == IF v.k = "num" THEN Mk(v.n, v.d * w) ELSE v

\* Python's min(a, b) and max(a, b): the first argument wins unless the
\* second is strictly smaller (larger)
PyMin(a, b) == IF Lt(b, a) THEN b ELSE a
PyMax(a, b) == IF Lt(a, b) THEN b ELSE a

\* int(v) for a finite float: truncation toward zero
ToInt(v) ==
    IF v.n >= 0 THEN Mk(v.n \div v.d, 1) ELSE Mk(-((-v.n) \div v.d), 1)

\* round(v * 1000), the digits an f-string "{v:.3f}" shows
Fmt3(v) == (2 * 1000 * v.n + v.d) \div (2 * v.d)

----------------------------------------------------------------------------
(* Program constants.                                                      *)

LandmarkCount == 68
FACEMESH_CHANNEL_COUNT == LandmarkCount * 3

\* MediaPipe indices of the 68 landmarks, in channel order
FACEMESH_68_INDICES ==
    << 234, 127, 162, 21, 54, 103, 67, 109, 10, 338, 297, 332, 284, 251, 389,
       356, 454,
       70, 63, 105, 66, 107,
       336, 296, 334, 293, 300,
       168, 6, 197, 195,
       5, 4, 1, 19, 94,
       33, 160, 158, 133, 153, 144,
       362, 385, 387, 263, 373, 380,
       61, 185, 40, 39, 37, 0, 267, 269, 270, 409, 291, 375,
       78, 191, 80, 81, 82, 13, 312, 311 >>

target_fps == 30
frame_interval == Mk(1, target_fps)

cursor_step == Mk(1, 20)

\* abs(x) > 100000: the raw prediction is extreme
GazeExtreme == Mk(100000, 1)
\* abs(lm.x) > 10.0: the raw landmark is extreme
LandmarkExtreme == Mk(10, 1)
\* abs(val) > 10.0 and abs(val) > 100.0 of the two final validations
GazeFinalLimit == Mk(10, 1)
FaceMeshFinalLimit == Mk(100, 1)
\* range(0, 30, 3): the landmarks whose x, y the final validation range-checks
FaceMeshRangeChecked == 10

\* screen sizes the startup check accepts
MinScreen == 100
MaxScreen == 10000

NoSample == << >>
BlinkSample == <<Zero, Zero, One>>

----------------------------------------------------------------------------
(* LandmarkSampleBuilder: lines 291-310.                                   *)

\* results.multi_face_landmarks is empty
NoFace == [detected |-> FALSE, base |-> <<Zero, Zero, Zero>>,
           devIdx |-> -1, dev |-> <<Zero, Zero, Zero>>]

\* a detected face: every MediaPipe landmark is `base` except landmark
\* devIdx, which is `dev`
MkFace(base, devIdx, dev) ==
    [detected |-> TRUE, base |-> base, devIdx |-> devIdx, dev |-> dev]

\* face_landmarks.landmark[idx] as <<x, y, z>>
Landmark(f, idx) == IF idx = f.devIdx THEN f.dev ELSE f.base

\* lines 303-306: the triple is skipped
LandmarkSkipped(lm) ==
    \/ ~(IsFinite(lm[1]) /\ IsFinite(lm[2]) /\ IsFinite(lm[3]))
    \/ Gt(Abs(lm[1]), LandmarkExtreme)
    \/ Gt(Abs(lm[2]), LandmarkExtreme)
    \/ Gt(Abs(lm[3]), LandmarkExtreme)

\* max(0.0, min(1.0, v))
Clamp01(v) == PyMax(Zero, PyMin(One, v))

\* mutant of ClampZ: z is stored as it came
ClampZ_Unclamped(v) == v

\* max(-1.0, min(1.0, v))
ClampZ(v) == PyMax(Mk(-1, 1), PyMin(One, v))

\* the three entries written for landmark number i (0-based) of the list
LandmarkEntry(lm, axis) ==
    IF LandmarkSkipped(lm) THEN NaN
    ELSE IF axis = 0 THEN Clamp01(lm[1])
    ELSE IF axis = 1 THEN Clamp01(lm[2])
    ELSE ClampZ(lm[3])

\* facemesh_sample after lines 292-310
BuildFaceMeshSample(f) ==
    IF ~f.detected
    THEN [j \in 1..FACEMESH_CHANNEL_COUNT |-> NaN]
    ELSE [j \in 1..FACEMESH_CHANNEL_COUNT |->
            LandmarkEntry(Landmark(f, FACEMESH_68_INDICES[((j - 1) \div 3) + 1]),
                          (j - 1) % 3)]

----------------------------------------------------------------------------
(* GazeSampleBuilder: lines 312-368.                                       *)

\* x, y = map(int, gaze_point) raises on NaN (ValueError) and on an
\* infinity (OverflowError); nothing catches it
IntRaises(gp) == ~(IsFinite(gp[1]) /\ IsFinite(gp[2]))

\* mutant of RawExtreme: only y is compared with the threshold
RawExtreme_YOnly(x, y) == Gt(Abs(y), GazeExtreme)

\* line 331
RawExtreme(x, y) == Gt(Abs(x), GazeExtreme) \/ Gt(Abs(y), GazeExtreme)

\* line 322: x, y = map(int, gaze_point)
RawInts(gp) == <<ToInt(gp[1]), ToInt(gp[2])>>

\* mutant of StepSkipped: the extreme-value branch of line 331 is missing
StepSkipped_NoExtreme(gp) ==
    ~(IsFinite(RawInts(gp)[1]) /\ IsFinite(RawInts(gp)[2]))

\* lines 325-336: the raw prediction never reaches the smoother
StepSkipped(gp) ==
    LET x == RawInts(gp)[1]
        y == RawInts(gp)[2]
    IN  ~(IsFinite(x) /\ IsFinite(y)) \/ RawExtreme(x, y)

\* line 347
SmoothedInvalid(xp, yp) ==
    xp = None \/ yp = None \/ ~IsFinite(xp) \/ ~IsFinite(yp)

\* mutant of NormalizedSample: the gaze payload carries the blink flag
NormalizedSample_BlinkFlag(xp, yp, w, h) ==
    <<Clamp01(DivInt(xp, w)), Clamp01(DivInt(yp, h)), One>>

\* mutant of NormalizedSample: lines 360-361 are missing
NormalizedSample_NoClamp(xp, yp, w, h) ==
    <<DivInt(xp, w), DivInt(yp, h), Zero>>

\* lines 351-362: the candidate built from a finite smoothed point
NormalizedSample(xp, yp, w, h) ==
    LET lsl_gaze_x == DivInt(xp, w)
        lsl_gaze_y == DivInt(yp, h)
    IN  IF ~IsFinite(lsl_gaze_x) \/ ~IsFinite(lsl_gaze_y) THEN NoSample
        ELSE <<Clamp01(lsl_gaze_x), Clamp01(lsl_gaze_y), Zero>>

\* lines 344-362: lsl_sample once the smoother has answered (xp, yp)
SmoothedSample(xp, yp, w, h) ==
    IF w <= 0 \/ h <= 0 THEN NoSample
    ELSE IF SmoothedInvalid(xp, yp) THEN NoSample
    ELSE NormalizedSample(xp, yp, w, h)

\* max(cursor_alpha - cursor_step, 0.0) and min(cursor_alpha + cursor_step, 1.0)
AlphaDown(a) == PyMax(Sub(a, cursor_step), Zero)
AlphaUp(a) == PyMin(Add(a, cursor_step), One)

----------------------------------------------------------------------------
(* DualChannelPublisher: lines 370-446.                                    *)

Str(tag) == [tag |-> tag, x |-> 0, y |-> 0]

\* f"Gaze: x={lsl_sample[0]:.3f} y={lsl_sample[1]:.3f} (blink=0)"
GazeStr(s) == [tag |-> "Gaze: x= y= (blink=0)", x |-> Fmt3(s[1]), y |-> Fmt3(s[2])]

\* f"FaceMesh: {valid_count}/10"
FaceMeshStr(valid_count) == [tag |-> "FaceMesh: /10", x |-> valid_count, y |-> 0]

\* line 381, for one value: the value is refused
GazeValueInvalid(val) ==
    ~IsNumber(val) \/ ~IsFinite(val) \/ Gt(Abs(val), GazeFinalLimit)

\* lines 379-384
GazeAllValuesValid(s) == \A i \in 1..Len(s) : ~GazeValueInvalid(s[i])

\* line 388
GazeRangeValid(s) ==
    Le(Zero, s[1]) /\ Le(s[1], One) /\ Le(Zero, s[2]) /\ Le(s[2], One)

\* mutant of RateLimitAdmits: the limiter admits every attempt
RateLimitAdmits_Always(now, last) == TRUE

\* mutant of RateLimitAdmits: > instead of >=
RateLimitAdmits_Strict(now, last) == Gt(Sub(now, last), frame_interval)

\* mutant of RateLimitAdmits: the comparison is the wrong way round
RateLimitAdmits_Reversed(now, last) == Le(Sub(now, last), frame_interval)

\* lines 392 and 432: current_time - last_send_time >= frame_interval
RateLimitAdmits(now, last) == Ge(Sub(now, last), frame_interval)

\* line 415, for one value: the value is refused
FaceMeshValueInvalid(val) ==
    ~IsNumber(val) \/ ~IsFinite(val) \/ Gt(Abs(val), FaceMeshFinalLimit)

\* mutant of FaceMeshAllValid: the loop stops after the first value
FaceMeshAllValid_FirstOnly(s) == ~FaceMeshValueInvalid(s[1])

\* lines 413-418
FaceMeshAllValid(s) == \A j \in 1..Len(s) : ~FaceMeshValueInvalid(s[j])

\* lines 423-428: for i in range(0, 30, 3)
FaceMeshRangeValid(s) ==
    \A i \in 0..(FaceMeshRangeChecked - 1) :
        /\ Le(Zero, s[3 * i + 1]) /\ Le(s[3 * i + 1], One)
        /\ Le(Zero, s[3 * i + 2]) /\ Le(s[3 * i + 2], One)

\* line 436
ValidCount(s) ==
    Cardinality({i \in 0..(FaceMeshRangeChecked - 1) : ~IsNaN(s[3 * i + 1])})

\* what lines 377-406 do with the gaze candidate s
GazeDecision(s, now, last) ==
    IF s = NoSample THEN "invalid"
    ELSE IF ~GazeAllValuesValid(s) THEN "blocked"
    ELSE IF ~GazeRangeValid(s) THEN "out_of_range"
    ELSE IF RateLimitAdmits(now, last) THEN "push"
    ELSE "skipped"

\* what lines 412-444 do with the landmark candidate s
FaceMeshDecision(s, now, last) ==
    IF ~(FaceMeshAllValid(s) /\ ~IsNaN(s[1])) THEN "invalid"
    ELSE IF ~FaceMeshRangeValid(s) THEN "blocked"
    ELSE IF RateLimitAdmits(now, last) THEN "push"
    ELSE "skipped"

----------------------------------------------------------------------------
(* Inputs of the model.                                                    *)

\* get_screen_size()
ScreenSizes ==
    { <<1920, 1080>>, <<0, 1080>>, <<1920, 99>>, <<10001, 1080>> }

NoPoint == <<None, None>>

\* gaze_estimator.predict(...)[0]
RawPoints ==
    { <<Mk(-1000009, 10), Mk(5402, 10)>>,    \* int() gives (-100000, 540)
      <<Mk(2000009, 10), Mk(5, 1)>>,         \* extreme
      <<NaN, PosInf>> }

\* smoother.step(x, y): pass-through, or what a stateful filter may answer
StepOutputs(x, y) ==
    { <<x, y>>, <<Mk(1920, 1), Zero>>, <<Mk(3000, 1), Mk(2161, 2)>>,
      <<NaN, y>>, NoPoint }

\* face_mesh.process(rgb_frame).multi_face_landmarks
GoodTriple == <<Mk(1, 2), Mk(1, 4), Mk(-1, 10)>>
Faces ==
    { NoFace,
      MkFace(GoodTriple, 311, <<Mk(-10, 1), Mk(3, 2), Mk(5, 1)>>),
      MkFace(GoodTriple, 297, <<Mk(1, 2), Mk(1, 2), Mk(101, 10)>>),
      MkFace(GoodTriple, 33, <<Mk(1, 2), NaN, Zero>>) }

\* seconds between two readings of time.time() at line 373
FrameGaps == { Mk(1, 100), Mk(1, 30), Mk(1, 25) }

\* time.time() when the loop starts: seconds since the epoch
StartTime == Mk(1000, 1)

\* (blink_detected, features present, gaze_point, smoother answer)
FrameGazeInputs ==
    { <<TRUE, f, NoPoint, NoPoint>> : f \in BOOLEAN }
    \cup { <<FALSE, FALSE, NoPoint, NoPoint>> }
    \cup { <<FALSE, TRUE, gp, NoPoint>> : gp \in {q \in RawPoints : IntRaises(q)} }
    \cup { <<FALSE, TRUE, gp, NoPoint>> :
             gp \in {q \in RawPoints : ~IntRaises(q) /\ StepSkipped(q)} }
    \cup UNION { { <<FALSE, TRUE, gp, sm>> :
                     sm \in StepOutputs(RawInts(gp)[1], RawInts(gp)[2]) } :
                 gp \in {q \in RawPoints : ~IntRaises(q) /\ ~StepSkipped(q)} }

----------------------------------------------------------------------------
(* The program.                                                            *)

\* facemesh_sample for each face the model feeds in
FaceMeshSamples == [f \in Faces |-> BuildFaceMeshSample(f)]

AllNaN == [j \in 1..FACEMESH_CHANNEL_COUNT |-> NaN]

Init ==
    /\ pc = "startup"
    /\ \E sz \in ScreenSizes : screen_width = sz[1] /\ screen_height = sz[2]
    /\ outlet = FALSE
    /\ facemesh_outlet = FALSE
    /\ frames = 0
    /\ blink_detected = FALSE
    /\ features = FALSE
    /\ gaze_point = NoPoint
    /\ face = NoFace
    /\ x_pred = None
    /\ y_pred = None
    /\ smoother_calls = 0
    /\ smoother_args = NoPoint
    /\ lsl_sample = NoSample
    /\ facemesh_sample = AllNaN
    /\ cursor_alpha = Zero
    /\ current_time = StartTime
    /\ last_gaze_send_time = Zero
    /\ last_facemesh_send_time = Zero
    /\ gaze_data_str = Str("N/A")
    /\ facemesh_data_str = Str("N/A")
    /\ gaze_pushed = NoSample
    /\ facemesh_pushed = NoSample
    /\ gaze_raised = FALSE
    /\ facemesh_raised = FALSE
    /\ gaze_log = << >>
    /\ facemesh_log = << >>

\* mutant of ScreenInvalid: the range check of line 224 is missing
ScreenInvalid_ZeroOnly(w, h) == w = 0 \/ h = 0

\* lines 218-225: the screen size is refused
ScreenInvalid(w, h) ==
    \/ w = 0 \/ h = 0
    \/ w < MinScreen \/ w > MaxScreen \/ h < MinScreen \/ h > MaxScreen

frameLocals == <<blink_detected, features, gaze_point, face, x_pred, y_pred,
                 smoother_calls, smoother_args, lsl_sample, facemesh_sample,
                 gaze_pushed, facemesh_pushed, gaze_raised, facemesh_raised>>

\* lines 217-284: the screen check and the creation of the two outlets,
\* either of which may fail and leave its outlet None
Startup ==
    /\ pc = "startup"
    /\ IF ScreenInvalid(screen_width, screen_height)
       THEN /\ pc' = "config_error"
            /\ UNCHANGED <<outlet, facemesh_outlet>>
       ELSE /\ pc' = "read"
            /\ outlet' \in BOOLEAN
            /\ facemesh_outlet' \in BOOLEAN
    /\ UNCHANGED <<screen_width, screen_height, frames, frameLocals,
                   cursor_alpha, current_time, last_gaze_send_time,
                   last_facemesh_send_time, gaze_data_str, facemesh_data_str,
                   gaze_log, facemesh_log>>

\* the outcome of lines 312-368 for one frame: the gaze candidate, the
\* smoother call and the cursor intensity.  raised: an exception left the
\* loop body.
Rejected(alpha) ==
    [raised |-> FALSE, sample |-> NoSample, xp |-> None, yp |-> None,
     alpha |-> AlphaDown(alpha), calls |-> 0, args |-> NoPoint]

\* lines 314-318
BlinkBranch(alpha) == [Rejected(alpha) EXCEPT !.sample = BlinkSample]

\* lines 320-362; int() at line 322 raises on a non-finite prediction and
\* nothing catches it
FeatureBranch(gp, sm, alpha, w, h) ==
    IF IntRaises(gp)
    THEN [raised |-> TRUE, sample |-> NoSample, xp |-> None, yp |-> None,
          alpha |-> alpha, calls |-> 0, args |-> NoPoint]
    ELSE IF StepSkipped(gp) THEN Rejected(alpha)
    ELSE [raised |-> FALSE, sample |-> SmoothedSample(sm[1], sm[2], w, h),
          xp |-> sm[1], yp |-> sm[2], alpha |-> AlphaUp(alpha), calls |-> 1,
          args |-> RawInts(gp)]

\* mutant of NoFeatureBranch: the frame goes on with the candidate an earlier
\* blink frame left behind
NoFeatureBranch_Stale(alpha) == [Rejected(alpha) EXCEPT !.sample = BlinkSample]

\* lines 364-368
NoFeatureBranch(alpha) == Rejected(alpha)

\* mutant of GazeBuild: the features are looked at before the blink flag
GazeBuild_FeaturesFirst(blink, feat, gp, sm, alpha, w, h) ==
    IF feat THEN FeatureBranch(gp, sm, alpha, w, h)
    ELSE IF blink THEN BlinkBranch(alpha)
    ELSE NoFeatureBranch(alpha)

\* lines 312-368
GazeBuild(blink, feat, gp, sm, alpha, w, h) ==
    IF blink THEN BlinkBranch(alpha)
    ELSE IF feat THEN FeatureBranch(gp, sm, alpha, w, h)
    ELSE NoFeatureBranch(alpha)

\* mutant of LoopRuns: the break of line 499 is missing
LoopRuns_AfterBreak(p) == p \in {"read", "stopped"}

\* line 286: the for loop takes the next frame unless a break has left it
LoopRuns(p) == p = "read"

\* lines 286-373: read a frame, build both candidates, read the clock
BuildSamples ==
    /\ LoopRuns(pc)
    /\ frames < MaxFrames
    /\ \E f \in Faces, gi \in FrameGazeInputs, gap \in FrameGaps :
         \E g \in {GazeBuild(gi[1], gi[2], gi[3], gi[4], cursor_alpha,
                              screen_width, screen_height)} :
             /\ frames' = frames + 1
             /\ blink_detected' = gi[1]
             /\ features' = gi[2]
             /\ gaze_point' = gi[3]
             /\ face' = f
             /\ facemesh_sample' = FaceMeshSamples[f]
             /\ lsl_sample' = g.sample
             /\ x_pred' = g.xp
             /\ y_pred' = g.yp
             /\ smoother_calls' = g.calls
             /\ smoother_args' = g.args
             /\ cursor_alpha' = g.alpha
             /\ IF g.raised
                THEN pc' = "crashed" /\ UNCHANGED current_time
                ELSE pc' = "gaze" /\ current_time' = Add(current_time, gap)
    /\ gaze_pushed' = NoSample
    /\ facemesh_pushed' = NoSample
    /\ gaze_raised' = FALSE
    /\ facemesh_raised' = FALSE
    /\ UNCHANGED <<screen_width, screen_height, outlet, facemesh_outlet,
                   last_gaze_send_time, last_facemesh_send_time,
                   gaze_data_str, facemesh_data_str, gaze_log,
                   facemesh_log>>

\* mutant of SampleSent: the last channel is reset on the way out
SampleSent_Defaulted(s) == [j \in 1..Len(s) |-> IF j = Len(s) THEN Zero ELSE s[j]]

\* lines 394 and 433: the list handed to push_sample is the validated list
\* itself; the validation only reads it
SampleSent(s) == s

\* mutant of ChannelOpen: the publish block runs whether or not the outlet exists
ChannelOpen_Ignored(o) == TRUE

\* lines 375 and 410: "if outlet:", false for the None a failed creation left
ChannelOpen(o) == o

\* mutant of SendTimeAfter: the time is recorded before push_sample is called
SendTimeAfter_BeforePush(decision, raises, now, last) ==
    IF decision = "push" THEN now ELSE last

\* lines 394-395 and 433-434: last_*_send_time after the publish attempt;
\* the assignment follows push_sample and is skipped when it raises
SendTimeAfter(decision, raises, now, last) ==
    IF decision = "push" /\ ~raises THEN now ELSE last

\* the record of a push made now
Pushed == [t |-> current_time, frame |-> frames]

\* outlet.push_sample may raise only where it is called
PushOutcomes(decision) == IF decision = "push" THEN BOOLEAN ELSE {FALSE}

\* mutant of GazeStatus: a rate-limit decline is reported like a failed push
GazeStatus_DeclineAsError(decision, raises, s, old) ==
    IF decision = "invalid" THEN Str("Gaze: INVALID (not sent)")
    ELSE IF decision = "blocked" THEN Str("Gaze: BLOCKED (invalid values)")
    ELSE IF decision = "out_of_range" THEN old
    ELSE IF decision = "skipped" \/ raises THEN Str("Gaze Error")
    ELSE IF s[3] = One THEN Str("Gaze: BLINK (0,0,1)")
    ELSE GazeStr(s)

\* gaze_data_str after lines 377-408
GazeStatus(decision, raises, s, old) ==
    IF decision = "invalid" THEN Str("Gaze: INVALID (not sent)")
    ELSE IF decision = "blocked" THEN Str("Gaze: BLOCKED (invalid values)")
    ELSE IF decision = "out_of_range" THEN old
    ELSE IF decision = "skipped" THEN Str("Gaze: SKIPPED (rate limit)")
    ELSE IF raises THEN Str("Gaze Error")
    ELSE IF s[3] = One THEN Str("Gaze: BLINK (0,0,1)")
    ELSE GazeStr(s)

\* facemesh_data_str after lines 412-446
FaceMeshStatus(decision, raises, s) ==
    IF decision = "invalid" THEN Str("FaceMesh: INVALID (not sent)")
    ELSE IF decision = "blocked" THEN Str("FaceMesh: BLOCKED (out of range)")
    ELSE IF decision = "skipped" THEN Str("FaceMesh: SKIPPED (rate limit)")
    ELSE IF raises THEN Str("FaceMesh Error")
    ELSE FaceMeshStr(ValidCount(s))

\* mutant of AfterGazeRaise: the exception leaves the loop
AfterGazeRaise_Propagates == "crashed"

\* where the loop goes when outlet.push_sample raises: line 407 catches it
AfterGazeRaise == "facemesh"

\* where the loop goes when facemesh_outlet.push_sample raises: line 445
AfterFaceMeshRaise == "end"

\* lines 375-408: the publish attempt on the EyeGaze outlet
PublishGaze ==
    /\ pc = "gaze"
    /\ IF ~ChannelOpen(outlet)
       THEN /\ pc' = "facemesh"
            /\ UNCHANGED <<last_gaze_send_time, gaze_data_str, gaze_pushed,
                           gaze_raised, gaze_log>>
       ELSE \E decision \in {GazeDecision(lsl_sample, current_time,
                                          last_gaze_send_time)} :
                \E raises \in PushOutcomes(decision) :
                  LET sent == decision = "push" /\ ~raises
                  IN  /\ pc' = IF raises THEN AfterGazeRaise ELSE "facemesh"
                      /\ gaze_raised' = raises
                      /\ gaze_pushed' = IF sent THEN SampleSent(lsl_sample)
                                         ELSE NoSample
                      /\ gaze_log' = IF sent THEN Append(gaze_log, Pushed)
                                      ELSE gaze_log
                      /\ last_gaze_send_time' =
                            SendTimeAfter(decision, raises, current_time,
                                          last_gaze_send_time)
                      /\ gaze_data_str' =
                            GazeStatus(decision, raises, lsl_sample, gaze_data_str)
    /\ UNCHANGED <<screen_width, screen_height, outlet, facemesh_outlet, frames,
                   blink_detected, features, gaze_point, face, x_pred, y_pred,
                   smoother_calls, smoother_args, lsl_sample, facemesh_sample,
                   cursor_alpha, current_time, last_facemesh_send_time,
                   facemesh_data_str, facemesh_pushed, facemesh_raised,
                   facemesh_log>>

\* lines 410-446: the publish attempt on the FaceMesh outlet
PublishFaceMesh ==
    /\ pc = "facemesh"
    /\ IF ~ChannelOpen(facemesh_outlet)
       THEN /\ pc' = "end"
            /\ UNCHANGED <<last_facemesh_send_time, facemesh_data_str,
                           facemesh_pushed, facemesh_raised, facemesh_log>>
       ELSE \E decision \in {FaceMeshDecision(facemesh_sample, current_time,
                                              last_facemesh_send_time)} :
                \E raises \in PushOutcomes(decision) :
                  LET sent == decision = "push" /\ ~raises
                  IN  /\ pc' = IF raises THEN AfterFaceMeshRaise ELSE "end"
                      /\ facemesh_raised' = raises
                      /\ facemesh_pushed' =
                            IF sent THEN SampleSent(facemesh_sample)
                            ELSE NoSample
                      /\ facemesh_log' =
                            IF sent THEN Append(facemesh_log, Pushed)
                            ELSE facemesh_log
                      /\ last_facemesh_send_time' =
                            SendTimeAfter(decision, raises, current_time,
                                          last_facemesh_send_time)
                      /\ facemesh_data_str' =
                            FaceMeshStatus(decision, raises, facemesh_sample)
    /\ UNCHANGED <<screen_width, screen_height, outlet, facemesh_outlet, frames,
                   blink_detected, features, gaze_point, face, x_pred, y_pred,
                   smoother_calls, smoother_args, lsl_sample, facemesh_sample,
                   cursor_alpha, current_time, last_gaze_send_time,
                   gaze_data_str, gaze_pushed, gaze_raised, gaze_log>>

\* lines 471-494: (landmark index, axis) of the values the debug window
\* passes to int()
DebugUIReads ==
    { <<33, 1>>, <<33, 2>>, <<159, 2>>, <<263, 1>>, <<263, 2>>, <<386, 2>>,
      <<13, 1>>, <<13, 2>>, <<14, 2>> }

\* int() of a non-finite landmark coordinate raises and nothing catches it
DebugUIRaises(f) ==
    f.detected /\ \E r \in DebugUIReads : ~IsFinite(Landmark(f, r[1])[r[2]])

\* lines 448-499: the debug window and cv2.waitKey(1) == 27.  The locals of
\* the iteration are all rebound before the next iteration reads them; the
\* model forgets them here.
EndFrame ==
    /\ pc = "end"
    /\ IF DebugUIRaises(face)
       THEN /\ pc' = "crashed"
            /\ UNCHANGED frameLocals
       ELSE /\ \E escape \in BOOLEAN : pc' = IF escape THEN "stopped" ELSE "read"
            /\ blink_detected' = FALSE
            /\ features' = FALSE
            /\ gaze_point' = NoPoint
            /\ face' = NoFace
            /\ x_pred' = None
            /\ y_pred' = None
            /\ smoother_calls' = 0
            /\ smoother_args' = NoPoint
            /\ lsl_sample' = NoSample
            /\ facemesh_sample' = AllNaN
            /\ gaze_pushed' = NoSample
            /\ facemesh_pushed' = NoSample
            /\ gaze_raised' = FALSE
            /\ facemesh_raised' = FALSE
    /\ UNCHANGED <<screen_width, screen_height, outlet, facemesh_outlet, frames,
                   cursor_alpha, current_time, last_gaze_send_time,
                   last_facemesh_send_time, gaze_data_str, facemesh_data_str,
                   gaze_log, facemesh_log>>

Next ==
    \/ Startup
    \/ BuildSamples
    \/ PublishGaze
    \/ PublishFaceMesh
    \/ EndFrame

Spec == Init /\ [][Next]_vars

\* The loop body is sequential code: once a frame has been read, the two
\* publish blocks and the end of the iteration are executed.  Whether a
\* further frame arrives is up to the camera and is not assumed.
SpecFair ==
    /\ Spec
    /\ WF_vars(Startup)
    /\ WF_vars(PublishGaze)
    /\ WF_vars(PublishFaceMesh)
    /\ WF_vars(EndFrame)

----------------------------------------------------------------------------
(* The publisher on its own: lines 375-446 applied to arbitrary candidate  *)
(* vectors, not only those the builders produce.                           *)

ProbeValues == { Zero, Mk(1, 2), One, Mk(-1, 2), Mk(3, 2), NaN }

\* any 3-channel vector over ProbeValues
GazeCandidates ==
    { <<a, b, c>> : a \in ProbeValues, b \in ProbeValues, c \in ProbeValues }

\* a well-formed landmark vector
GoodVector ==
    [j \in 1..FACEMESH_CHANNEL_COUNT |-> GoodTriple[((j - 1) % 3) + 1]]

\* channels of the landmark vector the probe overwrites: x, y, z of the
\* landmarks 0, 9, 10 and 67
ProbeChannels == { 1, 2, 3, 28, 29, 30, 31, 32, 33, 202, 203, 204 }

\* a well-formed landmark vector with one channel overwritten
FaceMeshCandidates ==
    { [GoodVector EXCEPT ![j] = v] :
        j \in ProbeChannels,
        v \in ProbeValues \cup { Mk(5, 1), Mk(-5, 1), Mk(101, 1), PosInf } }

InitValidation ==
    /\ pc = "gaze"
    /\ screen_width = 1920
    /\ screen_height = 1080
    /\ outlet = TRUE
    /\ facemesh_outlet = TRUE
    /\ frames = 1
    /\ blink_detected = FALSE
    /\ features = FALSE
    /\ gaze_point = NoPoint
    /\ face = NoFace
    /\ x_pred = None
    /\ y_pred = None
    /\ smoother_calls = 0
    /\ smoother_args = NoPoint
    /\ \/ lsl_sample \in GazeCandidates /\ facemesh_sample = GoodVector
       \/ lsl_sample = BlinkSample /\ facemesh_sample \in FaceMeshCandidates
    /\ cursor_alpha = Zero
    /\ current_time = StartTime
    /\ last_gaze_send_time = Zero
    /\ last_facemesh_send_time = Zero
    /\ gaze_data_str = Str("N/A")
    /\ facemesh_data_str = Str("N/A")
    /\ gaze_pushed = NoSample
    /\ facemesh_pushed = NoSample
    /\ gaze_raised = FALSE
    /\ facemesh_raised = FALSE
    /\ gaze_log = << >>
    /\ facemesh_log = << >>

NextValidation ==
    \/ PublishGaze
    \/ PublishFaceMesh
    \/ EndFrame

SpecValidation == InitValidation /\ [][NextValidation]_vars

----------------------------------------------------------------------------
(* Vocabulary of the properties.                                           *)

\* v is a finite number with lo <= v <= hi
Within(v, lo, hi) == v.k = "num" /\ lo.n * v.d <= v.n * lo.d /\ v.n * hi.d <= hi.n * v.d

MinusOne == Mk(-1, 1)

\* the mathematical clamp of a finite v to [lo, hi]
Clamped(v, lo, hi) ==
    IF v.n * lo.d < lo.n * v.d THEN lo
    ELSE IF v.n * hi.d > hi.n * v.d THEN hi
    ELSE v

\* a frame is being processed, its candidates are built (or the build died)
InFrame == pc \in {"gaze", "facemesh", "end", "crashed"}

\* both candidates of the frame have just been built (or the build died)
JustBuilt == pc \in {"gaze", "crashed"}

\* the publish attempt on the EyeGaze outlet of this frame is over
GazeAttempted == pc \in {"facemesh", "end"}

\* the publish attempt on the FaceMesh outlet of this frame is over
FaceMeshAttempted == pc = "end"

\* s is a gaze payload (x, y, 0) with x, y in [0,1]
IsGazePayload(s) ==
    Len(s) = 3 /\ Within(s[1], Zero, One) /\ Within(s[2], Zero, One) /\ s[3] = Zero

\* s is the blink payload
IsBlinkPayload(s) == s = <<Mk(0, 1), Mk(0, 1), Mk(1, 1)>>

\* every triple of the landmark vector s is finite and within its range
LandmarkVectorInRange(s) ==
    /\ Len(s) = 3 * 68
    /\ \A i \in 0..67 :
         /\ Within(s[3 * i + 1], Zero, One)
         /\ Within(s[3 * i + 2], Zero, One)
         /\ Within(s[3 * i + 3], MinusOne, One)

----------------------------------------------------------------------------
(* C1: every sample pushed on the EyeGaze channel is either the blink      *)
(* payload (0,0,1) or a gaze payload (x,y,0) with x and y in [0,1].        *)
C1_PushedGazeShape ==
    gaze_pushed # NoSample =>
        IsBlinkPayload(gaze_pushed) \/ IsGazePayload(gaze_pushed)

\* in the second frame a prediction left of the screen is pushed as the
\* clamped payload (0, 0.5, 0)
C1_Witness ==
    /\ pc = "end" /\ frames = 2 /\ Len(gaze_log) = 2
    /\ ~blink_detected
    /\ x_pred = Mk(-100000, 1) /\ y_pred = Mk(540, 1)
    /\ gaze_pushed = <<Zero, Mk(1, 2), Zero>>

(* C2: no sample is pushed on the EyeGaze channel in a frame classified    *)
(* invalid: no blink, and features absent, or the raw prediction           *)
(* non-finite or beyond 100000, or the smoothed point non-finite, or the   *)
(* normalized value non-finite.                                            *)
FrameInvalid ==
    /\ ~blink_detected
    /\ \/ ~features
       \/ ~(IsFinite(gaze_point[1]) /\ IsFinite(gaze_point[2]))
       \/ Gt(Abs(ToInt(gaze_point[1])), Mk(100000, 1))
       \/ Gt(Abs(ToInt(gaze_point[2])), Mk(100000, 1))
       \/ ~(IsFinite(x_pred) /\ IsFinite(y_pred))
       \/ ~IsFinite(DivInt(x_pred, screen_width))
       \/ ~IsFinite(DivInt(y_pred, screen_height))

C2_InvalidFrameNotPushed ==
    (InFrame /\ FrameInvalid) =>
        /\ gaze_pushed = NoSample
        /\ \A i \in 1..Len(gaze_log) : gaze_log[i].frame # frames

\* a frame whose smoothed point is NaN went through an open, idle channel
\* and was recorded as not sent
C2_Witness ==
    /\ pc = "end" /\ outlet /\ features /\ ~blink_detected
    /\ IsNaN(x_pred) /\ IsFinite(gaze_point[1])
    /\ gaze_log = << >>
    /\ gaze_data_str = Str("Gaze: INVALID (not sent)")

(* C3: on a frame whose blink flag is true the gaze sample built is        *)
(* exactly (0,0,1), with or without features, and what the frame publishes *)
(* is (0,0,1): it is pushed whenever the channel is open, the limiter      *)
(* admits it and the push does not raise, and nothing else is pushed.      *)
C3_BlinkYieldsBlinkPayload ==
    (InFrame /\ blink_detected) =>
        /\ IsBlinkPayload(lsl_sample)
        /\ gaze_pushed = NoSample \/ IsBlinkPayload(gaze_pushed)
        /\ ( /\ GazeAttempted /\ outlet /\ ~gaze_raised
             /\ gaze_data_str # Str("Gaze: SKIPPED (rate limit)") )
           => IsBlinkPayload(gaze_pushed)

\* a blink frame that also carries features published (0,0,1)
C3_Witness ==
    /\ pc = "end" /\ blink_detected /\ features
    /\ gaze_pushed = <<Zero, Zero, One>>
    /\ gaze_data_str = Str("Gaze: BLINK (0,0,1)")

(* C4: on either channel no two samples are accepted at limiter times      *)
(* closer together than 1/30 s.                                            *)
MinGapKept(log) ==
    \A i \in 1..(Len(log) - 1) :
        30 * (log[i + 1].t.n * log[i].t.d - log[i].t.n * log[i + 1].t.d)
            >= log[i + 1].t.d * log[i].t.d

C4_MinimumSpacing == MinGapKept(gaze_log) /\ MinGapKept(facemesh_log)

\* both channels accepted two samples exactly 1/30 s apart
C4_Witness ==
    /\ Len(gaze_log) = 2 /\ Len(facemesh_log) = 2
    /\ Sub(gaze_log[2].t, gaze_log[1].t) = Mk(1, 30)
    /\ Sub(facemesh_log[2].t, facemesh_log[1].t) = Mk(1, 30)

(* C5: for a candidate that passed final validation on an open channel,    *)
(* the sample is pushed and the frame time recorded as last-accepted if    *)
(* and only if frame time minus last-accepted time is >= 1/30 s;           *)
(* otherwise nothing is pushed and last-accepted is unchanged.  An attempt *)
(* 10 ms after the last accepted publish is declined, one 40 ms after it   *)
(* is accepted.                                                            *)
GazeValidated ==
    /\ pc = "gaze" /\ outlet /\ lsl_sample # NoSample
    /\ GazeAllValuesValid(lsl_sample) /\ GazeRangeValid(lsl_sample)

FaceMeshValidated ==
    /\ pc = "facemesh" /\ facemesh_outlet
    /\ FaceMeshAllValid(facemesh_sample) /\ FaceMeshRangeValid(facemesh_sample)

\* current_time - last >= 1/30
GapReached(last) ==
    LET gap == Sub(current_time, last) IN 30 * gap.n >= gap.d

GazeAcquired == gaze_pushed' = lsl_sample /\ last_gaze_send_time' = current_time
GazeUntouched ==
    gaze_pushed' = NoSample /\ last_gaze_send_time' = last_gaze_send_time

FaceMeshAcquired ==
    facemesh_pushed' = facemesh_sample /\ last_facemesh_send_time' = current_time
FaceMeshUntouched ==
    /\ facemesh_pushed' = NoSample
    /\ last_facemesh_send_time' = last_facemesh_send_time

\* the claim as stated: the limiter alone decides
C5_Original ==
    [][ /\ GazeValidated =>
             /\ GazeAcquired <=> GapReached(last_gaze_send_time)
             /\ ~GapReached(last_gaze_send_time) => GazeUntouched
        /\ FaceMeshValidated =>
             /\ FaceMeshAcquired <=> GapReached(last_facemesh_send_time)
             /\ ~GapReached(last_facemesh_send_time) => FaceMeshUntouched
      ]_vars

(* C5 as amended: the sample is pushed and the frame time recorded if and  *)
(* only if the gap is >= 1/30 s and the push itself does not raise; when   *)
(* the limiter declines or the push raises, nothing is pushed and          *)
(* last-accepted is unchanged.  An attempt 10 ms after the last accepted   *)
(* publish is declined; one 40 ms after it is accepted unless the push     *)
(* raises.                                                                 *)
C5_Amended ==
    [][ /\ GazeValidated =>
             /\ GazeAcquired <=>
                    (GapReached(last_gaze_send_time) /\ ~gaze_raised')
             /\ ~(GapReached(last_gaze_send_time) /\ ~gaze_raised')
                    => GazeUntouched
             /\ Sub(current_time, last_gaze_send_time) = Mk(10, 1000)
                    => GazeUntouched /\ ~gaze_raised'
             /\ (Sub(current_time, last_gaze_send_time) = Mk(40, 1000)
                    /\ ~gaze_raised') => GazeAcquired
        /\ FaceMeshValidated =>
             /\ FaceMeshAcquired <=>
                    (GapReached(last_facemesh_send_time) /\ ~facemesh_raised')
             /\ ~(GapReached(last_facemesh_send_time) /\ ~facemesh_raised')
                    => FaceMeshUntouched
             /\ Sub(current_time, last_facemesh_send_time) = Mk(10, 1000)
                    => FaceMeshUntouched /\ ~facemesh_raised'
             /\ (Sub(current_time, last_facemesh_send_time) = Mk(40, 1000)
                    /\ ~facemesh_raised') => FaceMeshAcquired
      ]_vars

\* the second frame came 40 ms after the first, whose sample was accepted,
\* and its sample was accepted too
C5_Witness ==
    /\ pc = "facemesh" /\ frames = 2 /\ Len(gaze_log) = 2
    /\ Sub(gaze_log[2].t, gaze_log[1].t) = Mk(40, 1000)
    /\ gaze_pushed = lsl_sample
    /\ last_gaze_send_time = current_time

(* C6: a push that raises on one channel is caught and recorded in that    *)
(* channel's status string; the other channel's publish attempt of the     *)
(* same frame and the next frame still take place (the next frame unless   *)
(* the frame's debug window dies on a non-finite landmark, which has       *)
(* nothing to do with the push).                                           *)
C6_TransportFailureContained ==
    /\ gaze_raised =>
         /\ pc \in {"facemesh", "end"} \/ (pc = "crashed" /\ DebugUIRaises(face))
         /\ gaze_data_str = Str("Gaze Error")
         /\ pc = "facemesh" => ENABLED PublishFaceMesh
    /\ facemesh_raised =>
         /\ pc = "end" \/ (pc = "crashed" /\ DebugUIRaises(face))
         /\ facemesh_data_str = Str("FaceMesh Error")
    /\ (pc = "end" /\ (gaze_raised \/ facemesh_raised) /\ ~DebugUIRaises(face)) =>
         ENABLED (EndFrame /\ pc' = "read")

\* the EyeGaze push raised and the FaceMesh sample of the same frame was
\* still published
C6_Witness ==
    /\ pc = "end" /\ gaze_raised
    /\ gaze_data_str = Str("Gaze Error")
    /\ facemesh_pushed # NoSample
    /\ Len(facemesh_log) = 1 /\ facemesh_log[1].frame = frames

(* C7: no per-frame input terminates the frame loop: a non-finite raw      *)
(* prediction on a non-blink frame with features is resolved as "no        *)
(* sample" and the loop goes on.                                           *)
C7_Original ==
    /\ pc # "crashed"
    /\ ( /\ InFrame /\ ~blink_detected /\ features
         /\ ~(IsFinite(gaze_point[1]) /\ IsFinite(gaze_point[2])) )
       => (pc \in {"gaze", "facemesh", "end"} /\ lsl_sample = NoSample)

(* C8: in a frame with a detected face where one landmark triple is        *)
(* rejected and all others are accepted, the landmark sample carrying the  *)
(* others is still published when the rate limiter admits it.              *)
OneTripleRejected(s) ==
    /\ Cardinality({i \in 0..67 : IsNaN(s[3 * i + 1])}) = 1
    /\ \A i \in 0..67 :
         \/ IsNaN(s[3 * i + 1]) /\ IsNaN(s[3 * i + 2]) /\ IsNaN(s[3 * i + 3])
         \/ /\ Within(s[3 * i + 1], Zero, One)
            /\ Within(s[3 * i + 2], Zero, One)
            /\ Within(s[3 * i + 3], MinusOne, One)

C8_Original ==
    ( /\ FaceMeshAttempted /\ facemesh_outlet /\ face.detected
      /\ OneTripleRejected(facemesh_sample)
      /\ ~facemesh_raised
      /\ facemesh_data_str # Str("FaceMesh: SKIPPED (rate limit)") )
    => facemesh_pushed = facemesh_sample

(* C9: the publisher's final validation alone, for any candidate vector,   *)
(* refuses to push a gaze candidate unless x, y are in [0,1] and the third *)
(* channel is 0 or 1, and refuses a landmark candidate unless every one of *)
(* the 68 triples is finite with x, y in [0,1] and z in [-1,1].            *)
C9_Original ==
    /\ gaze_pushed # NoSample =>
         /\ Within(gaze_pushed[1], Zero, One)
         /\ Within(gaze_pushed[2], Zero, One)
         /\ gaze_pushed[3] \in {Zero, One}
    /\ facemesh_pushed # NoSample => LandmarkVectorInRange(facemesh_pushed)

(* C10: the landmark builder yields 204 sentinel entries when no face is   *)
(* detected; with a face whose 68 selected landmarks are all finite and    *)
(* within bound it yields 204 entries, none a sentinel, laid out (x,y,z)   *)
(* per landmark in the order of the index list, x and y clamped to [0,1]   *)
(* and z to [-1,1].                                                        *)
TripleInBound(lm) ==
    \A a \in 1..3 : Within(lm[a], Mk(-10, 1), Mk(10, 1))

AllSelectedInBound(f) ==
    \A i \in 1..68 : TripleInBound(Landmark(f, FACEMESH_68_INDICES[i]))

LandmarkBuilderMeets(f, s) ==
    /\ Len(s) = 204
    /\ ~f.detected => \A j \in 1..204 : IsNaN(s[j])
    /\ (f.detected /\ AllSelectedInBound(f)) =>
         \A i \in 1..68 :
            LET lm == Landmark(f, FACEMESH_68_INDICES[i])
                x == s[3 * (i - 1) + 1]
                y == s[3 * (i - 1) + 2]
                z == s[3 * (i - 1) + 3]
            IN  /\ x = Clamped(lm[1], Zero, One)
                /\ y = Clamped(lm[2], Zero, One)
                /\ z = Clamped(lm[3], MinusOne, One)
                /\ Within(x, Zero, One) /\ Within(y, Zero, One)
                /\ Within(z, MinusOne, One)

\* the verdict on the builder's output, once per face of the input set
BuilderVerdict == [f \in Faces |-> LandmarkBuilderMeets(f, FaceMeshSamples[f])]

GazeAccepts(s) == s # NoSample /\ GazeAllValuesValid(s) /\ GazeRangeValid(s)

FaceMeshAccepts(s) ==
    FaceMeshAllValid(s) /\ ~IsNaN(s[1]) /\ FaceMeshRangeValid(s)

Smoothed == ~blink_detected /\ features /\ smoother_calls = 1

\* v / w as a rational, v finite and w a positive integer
Ratio(v, w) == Mk(v.n, v.d * w)

C12_NormalizeAndClamp ==
    (InFrame /\ Smoothed /\ IsFinite(x_pred) /\ IsFinite(y_pred)) =>
        /\ lsl_sample = << Clamped(Ratio(x_pred, screen_width), Zero, One),
                           Clamped(Ratio(y_pred, screen_height), Zero, One),
                           Zero >>
        /\ x_pred.n < 0 => lsl_sample[1] = Zero
        /\ y_pred.n < 0 => lsl_sample[2] = Zero
        /\ x_pred.n > screen_width * x_pred.d => lsl_sample[1] = One
        /\ y_pred.n > screen_height * y_pred.d => lsl_sample[2] = One
        /\ gaze_pushed # NoSample => gaze_pushed = lsl_sample
        /\ ( /\ screen_width = 1920 /\ screen_height = 1080
             /\ x_pred = Mk(1920, 1) /\ y_pred = Mk(0, 1) )
           => lsl_sample = <<Mk(1, 1), Mk(0, 1), Mk(0, 1)>>

\* the scenario: 1920x1080, smoothed point (1920, 0), published (1, 0, 0)
C12_Witness ==
    /\ pc = "facemesh" /\ ~blink_detected /\ features
    /\ screen_width = 1920 /\ screen_height = 1080
    /\ x_pred = Mk(1920, 1) /\ y_pred = Mk(0, 1)
    /\ gaze_pushed = <<Mk(1, 1), Mk(0, 1), Mk(0, 1)>>
    /\ Len(gaze_log) >= 1 /\ gaze_log[Len(gaze_log)].frame = frames

(* C13: one gaze sample is emitted per input frame, the all-NaN sample     *)
(* when the frame is rejected, so that on an open EyeGaze channel the      *)
(* number of records emitted equals the number of frames processed.        *)
C13_Original ==
    (pc = "end" /\ outlet) =>
        /\ Len(gaze_log) = frames
        /\ FrameInvalid => gaze_pushed = <<NaN, NaN, NaN>>

(* C14: every sample pushed on the FaceMesh channel has all 204 values     *)
(* finite, every x and y in [0,1] and every z in [-1,1]; a landmark sample *)
(* that holds a sentinel (no face, or a rejected triple) is never pushed.  *)
HasSentinel(s) == \E j \in 1..Len(s) : IsNaN(s[j])

\* per face of the input set: its sample holds a sentinel; its sample is
\* in range throughout
SentinelVerdict == [f \in Faces |-> HasSentinel(FaceMeshSamples[f])]
InRangeVerdict == [f \in Faces |-> LandmarkVectorInRange(FaceMeshSamples[f])]

C14_PushedLandmarksInRange ==
    /\ facemesh_pushed # NoSample =>
         /\ facemesh_pushed = FaceMeshSamples[face]
         /\ InRangeVerdict[face]
    /\ (pc = "end" /\ SentinelVerdict[face]) =>
         /\ facemesh_pushed = NoSample
         /\ \A i \in 1..Len(facemesh_log) : facemesh_log[i].frame # frames

\* in the second frame the sample of a face whose last landmark was
\* (-10, 1.5, 5) was pushed with that landmark clamped to (0, 1, 1)
C14_Witness ==
    /\ pc = "end" /\ frames = 2 /\ face.devIdx = 311
    /\ facemesh_pushed = facemesh_sample
    /\ facemesh_pushed[202] = Zero
    /\ facemesh_pushed[203] = One
    /\ facemesh_pushed[204] = One
    /\ Len(facemesh_log) = 2

(* C15: a channel's last-accepted time changes only in the step in which   *)
(* that channel's push completed without error, and then becomes the       *)
(* frame's time; a validation drop, a rate-limit decline, a push that      *)
(* raised, a frame without candidate and every step of the other channel   *)
(* leave it unchanged.                                                     *)
C15_LastAcceptedFrame ==
    [][ /\ last_gaze_send_time' # last_gaze_send_time =>
             /\ pc = "gaze" /\ outlet
             /\ gaze_pushed' = lsl_sample /\ gaze_pushed' # NoSample
             /\ ~gaze_raised'
             /\ last_gaze_send_time' = current_time
        /\ last_facemesh_send_time' # last_facemesh_send_time =>
             /\ pc = "facemesh" /\ facemesh_outlet
             /\ facemesh_pushed' = facemesh_sample
             /\ ~facemesh_raised'
             /\ last_facemesh_send_time' = current_time
        /\ (pc = "gaze" /\ gaze_pushed' # NoSample) =>
             last_gaze_send_time' = current_time
        /\ (pc = "facemesh" /\ facemesh_pushed' # NoSample) =>
             last_facemesh_send_time' = current_time
      ]_vars

\* second frame: the EyeGaze push raised and left the time of the first
\* frame's publish in place, the FaceMesh push went through and recorded
\* this frame's time
C15_Witness ==
    /\ pc = "end" /\ frames = 2
    /\ gaze_raised /\ Len(gaze_log) = 1
    /\ last_gaze_send_time = gaze_log[1].t
    /\ last_gaze_send_time # current_time
    /\ facemesh_pushed # NoSample
    /\ last_facemesh_send_time = current_time

(* C16: when the creation of one output channel failed at startup the      *)
(* pipeline still runs; nothing is ever pushed on that channel and its     *)
(* last-accepted time and status string never change, while the other      *)
(* channel goes on validating, rate-limiting and publishing.               *)
Started == pc \notin {"startup", "config_error"}

GazeChannelIdle ==
    /\ gaze_log = << >> /\ gaze_pushed = NoSample /\ ~gaze_raised
    /\ last_gaze_send_time = Zero
    /\ gaze_data_str = Str("N/A")

FaceMeshChannelIdle ==
    /\ facemesh_log = << >> /\ facemesh_pushed = NoSample /\ ~facemesh_raised
    /\ last_facemesh_send_time = Zero
    /\ facemesh_data_str = Str("N/A")

\* the channel's publish attempt of this frame ran and left its outcome
GazeChannelServed ==
    /\ gaze_data_str # Str("N/A")
    /\ gaze_pushed # NoSample <=>
         gaze_data_str.tag \in {"Gaze: BLINK (0,0,1)", "Gaze: x= y= (blink=0)"}
    /\ gaze_pushed # NoSample =>
         (gaze_pushed = lsl_sample /\ last_gaze_send_time = current_time)

FaceMeshChannelServed ==
    /\ facemesh_data_str # Str("N/A")
    /\ facemesh_pushed # NoSample <=> facemesh_data_str.tag = "FaceMesh: /10"
    /\ facemesh_pushed # NoSample =>
         ( /\ facemesh_pushed = facemesh_sample
           /\ last_facemesh_send_time = current_time )

C16_FailedChannelDisabled ==
    /\ (Started /\ ~outlet) => GazeChannelIdle
    /\ (Started /\ ~facemesh_outlet) => FaceMeshChannelIdle
    /\ (Started /\ ~(outlet /\ facemesh_outlet)) =>
         /\ (pc = "read" /\ frames < MaxFrames) => ENABLED BuildSamples
         /\ pc = "gaze" => ENABLED PublishGaze
         /\ pc = "facemesh" => ENABLED PublishFaceMesh
    /\ (pc = "end" /\ ~outlet /\ facemesh_outlet) => FaceMeshChannelServed
    /\ (pc \in {"facemesh", "end"} /\ outlet /\ ~facemesh_outlet) =>
         GazeChannelServed

\* two frames without EyeGaze outlet: both had a gaze candidate, nothing
\* was pushed on EyeGaze, and FaceMesh published in both
C16_Witness ==
    /\ pc = "end" /\ frames = 2 /\ ~outlet /\ facemesh_outlet
    /\ lsl_sample # NoSample /\ gaze_log = << >>
    /\ gaze_data_str = Str("N/A")
    /\ Len(facemesh_log) = 2 /\ facemesh_pushed # NoSample

(* C17: the screen size is validated once, at startup: a width or height   *)
(* that is 0 or outside [100, 10000] ends startup with a configuration     *)
(* error before an output channel is opened or a frame is processed; so in *)
(* every frame of the loop both lie in [100, 10000] and the per-frame test *)
(* "width <= 0 or height <= 0" never succeeds.                             *)
SaneDimension(v) == v # 0 /\ v >= 100 /\ v <= 10000

C17_ScreenCheckedAtStartup ==
    /\ (pc # "startup" /\ ~(SaneDimension(screen_width) /\ SaneDimension(screen_height)))
         => /\ pc = "config_error"
            /\ ~outlet /\ ~facemesh_outlet
            /\ frames = 0 /\ gaze_log = << >> /\ facemesh_log = << >>
    /\ pc = "config_error" =>
         ~(SaneDimension(screen_width) /\ SaneDimension(screen_height))
    /\ (frames > 0 \/ outlet \/ facemesh_outlet) =>
         /\ SaneDimension(screen_width) /\ SaneDimension(screen_height)
         /\ ~(screen_width <= 0 \/ screen_height <= 0)

\* a screen 99 pixels high stopped the program at startup
C17_Witness ==
    /\ pc = "config_error" /\ screen_width = 1920 /\ screen_height = 99
    /\ ~outlet /\ ~facemesh_outlet /\ frames = 0

(* C18: smoother.step is called at most once per frame, never on a frame   *)
(* whose blink flag is true, never on a frame without features, and only   *)
(* with raw coordinates that are finite and within the extreme threshold,  *)
(* |x| <= 100000 and |y| <= 100000.                                        *)
C18_SmootherCalls ==
    InFrame =>
        /\ smoother_calls \in {0, 1}
        /\ (blink_detected \/ ~features) =>
             (smoother_calls = 0 /\ smoother_args = NoPoint)
        /\ smoother_calls = 1 =>
             /\ ~blink_detected /\ features
             /\ Within(smoother_args[1], Mk(-100000, 1), Mk(100000, 1))
             /\ Within(smoother_args[2], Mk(-100000, 1), Mk(100000, 1))
             /\ smoother_args[1].d = 1 /\ smoother_args[2].d = 1
             /\ IsFinite(gaze_point[1]) /\ IsFinite(gaze_point[2])
        /\ smoother_calls = 0 => (x_pred = None /\ y_pred = None)

\* the smoother was called with x exactly on the threshold
C18_Witness ==
    /\ pc = "gaze" /\ smoother_calls = 1
    /\ gaze_point = <<Mk(-1000009, 10), Mk(5402, 10)>>
    /\ smoother_args = <<Mk(-100000, 1), Mk(540, 1)>>
    /\ ~blink_detected /\ features

(* C19: after the publish attempt of a frame on an open channel the        *)
(* channel's status string tells that frame's outcome: published (with the *)
(* frame's values), invalid / no sample, transport error, or rate-limit    *)
(* decline; a decline is recorded as "SKIPPED (rate limit)", which no      *)
(* other outcome produces, and never as an error.                          *)
GazeDeclined == lsl_sample # NoSample /\ gaze_pushed = NoSample /\ ~gaze_raised

FaceMeshDeclined ==
    ~SentinelVerdict[face] /\ facemesh_pushed = NoSample /\ ~facemesh_raised

GazeOutcomeRecorded ==
    /\ lsl_sample = NoSample <=> gaze_data_str = Str("Gaze: INVALID (not sent)")
    /\ gaze_raised <=> gaze_data_str = Str("Gaze Error")
    /\ GazeDeclined <=> gaze_data_str = Str("Gaze: SKIPPED (rate limit)")
    /\ GazeDeclined => ~GapReached(last_gaze_send_time)
    /\ (gaze_pushed # NoSample /\ blink_detected) <=>
           gaze_data_str = Str("Gaze: BLINK (0,0,1)")
    /\ (gaze_pushed # NoSample /\ ~blink_detected) <=>
           gaze_data_str.tag = "Gaze: x= y= (blink=0)"
    /\ (gaze_pushed # NoSample /\ ~blink_detected) =>
           /\ gaze_data_str.x * lsl_sample[1].d = 1000 * lsl_sample[1].n
           /\ gaze_data_str.y * lsl_sample[2].d = 1000 * lsl_sample[2].n
    /\ gaze_data_str # Str("Gaze: BLOCKED (invalid values)")

FaceMeshOutcomeRecorded ==
    /\ SentinelVerdict[face] <=>
           facemesh_data_str = Str("FaceMesh: INVALID (not sent)")
    /\ facemesh_raised <=> facemesh_data_str = Str("FaceMesh Error")
    /\ FaceMeshDeclined <=>
           facemesh_data_str = Str("FaceMesh: SKIPPED (rate limit)")
    /\ FaceMeshDeclined => ~GapReached(last_facemesh_send_time)
    /\ facemesh_pushed # NoSample <=> facemesh_data_str.tag = "FaceMesh: /10"
    /\ facemesh_data_str # Str("FaceMesh: BLOCKED (out of range)")

C19_StatusRecordsOutcome ==
    /\ (GazeAttempted /\ outlet) => GazeOutcomeRecorded
    /\ (FaceMeshAttempted /\ facemesh_outlet) => FaceMeshOutcomeRecorded

\* second frame, 10 ms after the first: both channels published in the
\* first frame and declined in the second
C19_Witness ==
    /\ pc = "end" /\ frames = 2
    /\ Len(gaze_log) = 1 /\ Len(facemesh_log) = 1
    /\ Sub(current_time, last_gaze_send_time) = Mk(1, 100)
    /\ lsl_sample # NoSample /\ ~SentinelVerdict[face]
    /\ gaze_data_str = Str("Gaze: SKIPPED (rate limit)")
    /\ facemesh_data_str = Str("FaceMesh: SKIPPED (rate limit)")

(* C20: nothing is retried.  Each sample pushed on a channel is the        *)
(* candidate built from the inputs of the frame in which it is pushed; a   *)
(* new frame starts from its own inputs alone, whatever was declined,      *)
(* blocked or failed before; a channel receives at most one sample per     *)
(* frame and its samples arrive in frame order.                            *)
GazeCandidateOfFrame ==
    IF blink_detected THEN <<Mk(0, 1), Mk(0, 1), Mk(1, 1)>>
    ELSE IF ~features \/ smoother_calls = 0 THEN NoSample
    ELSE IF ~(IsFinite(x_pred) /\ IsFinite(y_pred)) THEN NoSample
    ELSE << Clamped(Ratio(x_pred, screen_width), Zero, One),
            Clamped(Ratio(y_pred, screen_height), Zero, One),
            Mk(0, 1) >>

FrameRecord == [t |-> current_time, frame |-> frames]

C20_NoRetry ==
    [][ /\ gaze_log' # gaze_log =>
             /\ pc = "gaze"
             /\ gaze_log' = Append(gaze_log, FrameRecord)
             /\ \A i \in 1..Len(gaze_log) : gaze_log[i].frame < frames
             /\ gaze_pushed' = lsl_sample
             /\ lsl_sample = GazeCandidateOfFrame
        /\ facemesh_log' # facemesh_log =>
             /\ pc = "facemesh"
             /\ facemesh_log' = Append(facemesh_log, FrameRecord)
             /\ \A i \in 1..Len(facemesh_log) : facemesh_log[i].frame < frames
             /\ facemesh_pushed' = facemesh_sample
             /\ facemesh_sample = FaceMeshSamples[face]
        /\ (gaze_pushed' # gaze_pushed /\ gaze_pushed' # NoSample) =>
             (pc = "gaze" /\ gaze_log' # gaze_log)
        /\ (facemesh_pushed' # facemesh_pushed /\ facemesh_pushed' # NoSample) =>
             (pc = "facemesh" /\ facemesh_log' # facemesh_log)
        /\ frames' # frames =>
             /\ frames' = frames + 1
             /\ lsl_sample' = GazeCandidateOfFrame'
             /\ facemesh_sample' = FaceMeshSamples[face']
             /\ gaze_pushed' = NoSample /\ facemesh_pushed' = NoSample
      ]_vars

\* the EyeGaze channel got nothing in the first frame; the second frame, a
\* blink, pushed its own (0,0,1), while FaceMesh got one sample per frame
C20_Witness ==
    /\ pc = "end" /\ frames = 2 /\ outlet /\ blink_detected
    /\ Len(gaze_log) = 1 /\ gaze_log[1].frame = 2
    /\ gaze_pushed = <<Mk(0, 1), Mk(0, 1), Mk(1, 1)>>
    /\ Len(facemesh_log) = 2
    /\ facemesh_log[1].frame = 1 /\ facemesh_log[2].frame = 2

(* C21: the stop signal (Escape) is observed only at the end of a frame,   *)
(* when the publish attempts of both channels for that frame are over;     *)
(* once it is observed no further frame is processed and no further sample *)
(* is pushed on either channel.                                            *)
C21_StopAtFrameEnd ==
    [][ /\ pc' = "stopped" =>
             /\ pc = "end"
             /\ outlet => gaze_data_str # Str("N/A")
             /\ facemesh_outlet => facemesh_data_str # Str("N/A")
             /\ frames' = frames
             /\ gaze_log' = gaze_log /\ facemesh_log' = facemesh_log
             /\ gaze_pushed' = NoSample /\ facemesh_pushed' = NoSample
        /\ pc # "stopped"
      ]_vars

\* Escape after a first frame in which both channels published: the loop
\* is over although more frames could be read
C21_Witness ==
    /\ pc = "stopped" /\ frames = 1 /\ frames < MaxFrames
    /\ Len(gaze_log) = 1 /\ Len(facemesh_log) = 1
    /\ gaze_log[1].frame = 1 /\ facemesh_log[1].frame = 1

(* C22: an open channel is never starved.  In every frame that brings a    *)
(* candidate passing validation at least 1/30 s after the channel's last   *)
(* accepted publish, the publish block is executed and publishes that      *)
(* frame's candidate unless the push itself fails; the first valid         *)
(* candidate after startup is admitted (last-accepted starts at 0), and    *)
(* nothing that arrives 1/30 s or more after the last accepted publish is  *)
(* declined.                                                               *)
GazeDue ==
    /\ pc = "gaze" /\ outlet
    /\ GazeAccepts(lsl_sample) /\ GapReached(last_gaze_send_time)

GazeServed ==
    /\ pc' = "facemesh" /\ frames' = frames
    /\ \/ gaze_raised'
       \/ /\ gaze_pushed' = lsl_sample /\ last_gaze_send_time' = current_time
          /\ gaze_log' = Append(gaze_log, FrameRecord)

FaceMeshDue ==
    /\ pc = "facemesh" /\ facemesh_outlet
    /\ ~SentinelVerdict[face] /\ GapReached(last_facemesh_send_time)

FaceMeshServed ==
    /\ pc' = "end" /\ frames' = frames
    /\ \/ facemesh_raised'
       \/ /\ facemesh_pushed' = facemesh_sample
          /\ last_facemesh_send_time' = current_time
          /\ facemesh_log' = Append(facemesh_log, FrameRecord)

\* a valid candidate meets a channel that has never accepted anything
GazeFirstValid ==
    /\ pc = "gaze" /\ outlet /\ GazeAccepts(lsl_sample)
    /\ last_gaze_send_time = Zero

FaceMeshFirstValid ==
    /\ pc = "facemesh" /\ facemesh_outlet /\ ~SentinelVerdict[face]
    /\ last_facemesh_send_time = Zero

NeverStarved ==
    /\ GazeFirstValid => GazeDue
    /\ FaceMeshFirstValid => FaceMeshDue
    /\ (GazeAttempted /\ outlet /\ GazeDeclined) =>
           ~GapReached(last_gaze_send_time)
    /\ (FaceMeshAttempted /\ facemesh_outlet /\ FaceMeshDeclined) =>
           ~GapReached(last_facemesh_send_time)

C23_Original ==
    [][ (frames' = frames + 1 /\ pc' = "gaze") =>
             /\ Within(cursor_alpha', Zero, One)
             /\ IsGazePayload(lsl_sample') <=>
                    cursor_alpha' = PyMin(Add(cursor_alpha, cursor_step), One)
             /\ lsl_sample' = NoSample =>
                    cursor_alpha' = PyMax(Sub(cursor_alpha, cursor_step), Zero)
      ]_vars

====
